---- MODULE Spec2Model ----
(***************************************************************************)
(* A model of the two command gateways of slurm_ansible:                   *)
(*   module_utils/sacctmgr_helper.py  (class SacctmgrHelper)               *)
(*   module_utils/scontrol_helper.py  (class ScontrolHelper)               *)
(*                                                                         *)
(* A Python str supplied by the caller (verb, entity, an options string,   *)
(* an element of an options list) is a sequence of atoms.  An atom is a    *)
(* TLA+ string standing for one character (" ", "'") or for a run of       *)
(* ordinary characters ("job").  Str flattens a sequence of atoms into one *)
(* string; the argument vector holds flattened strings.  A message built   *)
(* with an f-string or with str.join is the sequence of its fragments.     *)
(***************************************************************************)
EXTENDS Integers, Sequences, FiniteSets, TLC

VARIABLES
    tool,       \* which helper class this gateway instance is
    path,       \* self.sacctmgr_path / self.scontrol_path
    located,    \* how many times the executable locator has run
    reused,     \* whether an earlier call on this instance has ended
    pc,         \* position of the gateway: new, idle, validate, build, execute, returned, fatal, raised
    req,        \* the arguments of the run_command call in progress, and the method
                \* the caller called to make it (via)
    cmd,        \* the local cmd of run_command, once _build_command has returned it
    spawned,    \* how many times subprocess.run was called for the tool in this call
    proc,       \* what that subprocess.run did
    decoded,    \* how many times json.loads was called in this call
    result,     \* the dict run_command returned
    fatal,      \* the msg handed to module.fail_json
    raised      \* the exception that left run_command uncaught

vars == <<tool, path, located, reused, pc, req, cmd, spawned, proc, decoded, result, fatal, raised>>

----------------------------------------------------------------------------
(* Bounds of the model *)

\* longest options string, in atoms
MaxStrLen == 3
\* longest options list, in tokens
MaxListLen == 2

----------------------------------------------------------------------------
(* Class constants *)

Sacctmgr_VALID_COMMANDS ==
    << "add", "create", "delete", "remove", "modify", "update",
       "show", "list", "dump", "load", "archive", "clear" >>

Sacctmgr_VALID_ENTITIES ==
    << "account", "association", "cluster", "coordinator", "event",
       "federation", "job", "problem", "qos", "reservation", "resource",
       "runaway", "stats", "transaction", "tres", "user", "wckey" >>

Sacctmgr_READONLY_COMMANDS == << "show", "list", "dump" >>

Sacctmgr_JSON_SUPPORTED_COMMANDS == << "show", "list", "dump" >>

Scontrol_VALID_COMMANDS ==
    << "cancel_reboot", "create", "completing", "delete", "errnumstr",
       "fsdampeningfactor", "getaddrs", "help", "hold", "notify", "pidinfo",
       "listjobs", "listpids", "liststeps", "ping", "power", "reboot",
       "reconfigure", "release", "requeue", "requeuehold", "resume",
       "schedloglevel", "setdebug", "setdebugflags", "show", "shutdown",
       "suspend", "takeover", "top", "token", "uhold", "update", "version",
       "wait_job", "write" >>

Scontrol_JSON_SUPPORTED_COMMANDS == << "show" >>

Scontrol_JSON_SUPPORTED_ENTITIES ==
    << "job", "node", "partition", "reservation", "config", "licenses",
       "step", "topology", "assoc_mgr", "burstbuffer", "federation",
       "frontend", "slurmd" >>

Scontrol_READONLY_COMMANDS ==
    << "show", "ping", "version", "help", "completing", "listjobs",
       "listpids", "liststeps", "pidinfo", "getaddrs", "errnumstr" >>

Scontrol_SHOW_ENTITIES ==
    << "aliases", "assoc_mgr", "bbstat", "burstbuffer", "config", "daemons",
       "dwstat", "federation", "frontend", "hostlist", "hostlistsorted",
       "hostnames", "job", "licenses", "node", "partition", "reservation",
       "slurmd", "step", "topology" >>

Scontrol_UPDATE_ENTITIES ==
    << "job", "step", "node", "partition", "reservation", "frontend" >>

Scontrol_CREATE_ENTITIES == << "node", "partition", "reservation" >>

Scontrol_DELETE_ENTITIES == << "node", "partition", "reservation" >>

----------------------------------------------------------------------------
(* Python values *)

\* x in LIST
In(x, list) == \E i \in DOMAIN list : list[i] = x

\* a str of one atom
W(s) == << s >>

RECURSIVE Str(_)
\* the characters of a str, as one string
Str(t) == IF t = << >> THEN "" ELSE t[1] \o Str(Tail(t))

\* str.lower(), atom by atom
LowerAtom(a) ==
    CASE a = "SHOW" -> "show"
      [] a = "Show" -> "show"
      [] a = "UPDATE" -> "update"
      [] a = "ACCOUNT" -> "account"
      [] a = "JOB" -> "job"
      [] a = "DAEMONS" -> "daemons"
      [] OTHER -> a

lower(t) == [i \in DOMAIN t |-> LowerAtom(t[i])]

RECURSIVE join(_, _)
\* sep.join(list), as the sequence of its fragments
join(sep, list) ==
    IF list = << >> THEN << >>
    ELSE IF Len(list) = 1 THEN << list[1] >>
    ELSE << list[1], sep >> \o join(sep, Tail(list))

\* the options argument: None, a str, a list of str, or a value of another type
\* (an int, a dict, a tuple) of which only the truthiness is kept
OptNone == [kind |-> "none", val |-> << >>]
OptStr(s) == [kind |-> "str", val |-> s]
OptList(l) == [kind |-> "list", val |-> l]
OptOtherFalsy == [kind |-> "other", val |-> << >>]
OptOtherTruthy == [kind |-> "other", val |-> << W("123") >>]

\* bool(options)
Truthy(o) == o.kind # "none" /\ Len(o.val) > 0

----------------------------------------------------------------------------
(* str.split() and shlex.split() *)

\* the characters str.split() separates on (form feed is one of them)
StrWhitespace == {" ", "\t", "\n", "\r", "\f"}

\* shlex.whitespace
ShlexWhitespace == {" ", "\t", "\r", "\n"}

\* shlex.quotes
ShlexQuotes == {"'", "\""}

\* shlex.escape
ShlexEscape == {"\\"}

\* shlex.escapedquotes
ShlexEscapedQuotes == {"\""}

RECURSIVE SplitFrom(_, _, _, _)
\* the scan of str.split(): i is the next atom, tok the word being read
SplitFrom(s, i, tok, out) ==
    IF i > Len(s)
    THEN IF tok = << >> THEN out ELSE Append(out, tok)
    ELSE IF s[i] \in StrWhitespace
    THEN SplitFrom(s, i + 1, << >>, IF tok = << >> THEN out ELSE Append(out, tok))
    ELSE SplitFrom(s, i + 1, Append(tok, s[i]), out)

\* s.split(): the maximal runs of non-whitespace, none of them empty
split(s) == SplitFrom(s, 1, << >>, << >>)

RECURSIVE ShlexFrom(_, _, _, _, _, _)
\* the scan of shlex.split(s) (posix, whitespace_split, no commenters):
\* st is the lexer state (" " between tokens, "a" in a word, a quote, an escape),
\* esc the state to go back to after an escape, tok the token being read
ShlexFrom(s, i, st, esc, tok, out) ==
    IF i > Len(s)
    THEN IF st \in ShlexQuotes THEN [err |-> "No closing quotation", tokens |-> << >>]
         ELSE IF st \in ShlexEscape THEN [err |-> "No escaped character", tokens |-> << >>]
         ELSE IF st = "a" THEN [err |-> "", tokens |-> Append(out, tok)]
         ELSE [err |-> "", tokens |-> out]
    ELSE LET c == s[i] IN
         IF st = " "
         THEN IF c \in ShlexWhitespace THEN ShlexFrom(s, i + 1, " ", esc, << >>, out)
              ELSE IF c \in ShlexEscape THEN ShlexFrom(s, i + 1, c, "a", << >>, out)
              ELSE IF c \in ShlexQuotes THEN ShlexFrom(s, i + 1, c, esc, << >>, out)
              ELSE ShlexFrom(s, i + 1, "a", esc, << c >>, out)
         ELSE IF st \in ShlexQuotes
         THEN IF c = st THEN ShlexFrom(s, i + 1, "a", esc, tok, out)
              ELSE IF c \in ShlexEscape /\ st \in ShlexEscapedQuotes
                   THEN ShlexFrom(s, i + 1, c, st, tok, out)
              ELSE ShlexFrom(s, i + 1, st, esc, Append(tok, c), out)
         ELSE IF st \in ShlexEscape
         THEN IF esc \in ShlexQuotes /\ c # st /\ c # esc
              THEN ShlexFrom(s, i + 1, esc, esc, tok \o << st, c >>, out)
              ELSE ShlexFrom(s, i + 1, esc, esc, Append(tok, c), out)
         ELSE \* st = "a"
              IF c \in ShlexWhitespace THEN ShlexFrom(s, i + 1, " ", esc, << >>, Append(out, tok))
              ELSE IF c \in ShlexQuotes THEN ShlexFrom(s, i + 1, c, esc, tok, out)
              ELSE IF c \in ShlexEscape THEN ShlexFrom(s, i + 1, c, "a", tok, out)
              ELSE ShlexFrom(s, i + 1, "a", esc, Append(tok, c), out)

\* shlex.split(s): the tokens, or the ValueError it raises on unbalanced quoting
shlex_split(s) == ShlexFrom(s, 1, " ", " ", << >>, << >>)

----------------------------------------------------------------------------
(* What a helper method hands back: it returns, it calls module.fail_json   *)
(* (which does not return), or an exception leaves it                       *)

\* a list of str as the argument vector holds it
Flat(l) == [i \in DOMAIN l |-> Str(l[i])]

NoMsg == << >>
NoCmd == << >>

Ok(c) == [kind |-> "ok", cmd |-> c, msg |-> NoMsg, exc |-> ""]
FailJson(m) == [kind |-> "fatal", cmd |-> NoCmd, msg |-> m, exc |-> ""]
Raise(e) == [kind |-> "raised", cmd |-> NoCmd, msg |-> NoMsg, exc |-> e]

\* the tail of _build_command with the ValueError of shlex.split handed to fail_json
ExtendWithOptions_FailsJson(c, options) ==
    IF Truthy(options)
    THEN IF options.kind = "str"
         THEN LET sp == shlex_split(options.val) IN
              IF sp.err # "" THEN FailJson(<< "Invalid options: ", sp.err >>)
              ELSE Ok(c \o Flat(sp.tokens))
         ELSE IF options.kind = "list"
         THEN Ok(c \o Flat(options.val))
         ELSE FailJson(<< "Options must be a string or list" >>)
    ELSE Ok(c)

\* the tail of _build_command of both classes: "Add any additional options"
ExtendWithOptions(c, options) ==
    IF Truthy(options)
    THEN IF options.kind = "str"
         THEN LET sp == shlex_split(options.val) IN
              IF sp.err # "" THEN Raise("ValueError: " \o sp.err)
              ELSE Ok(c \o Flat(sp.tokens))
         ELSE IF options.kind = "list"
         THEN Ok(c \o Flat(options.val))
         ELSE FailJson(<< "Options must be a string or list" >>)
    ELSE Ok(c)

----------------------------------------------------------------------------
(* class SacctmgrHelper *)

Sacctmgr_validate_command(command) ==
    IF ~In(Str(lower(command)), Sacctmgr_VALID_COMMANDS)
    THEN FailJson(<< "Invalid sacctmgr command: ", Str(command), ". Valid commands are: " >>
                  \o join(", ", Sacctmgr_VALID_COMMANDS))
    ELSE Ok(NoCmd)

Sacctmgr_validate_entity(entity) ==
    IF ~In(Str(lower(entity)), Sacctmgr_VALID_ENTITIES)
    THEN FailJson(<< "Invalid sacctmgr entity: ", Str(entity), ". Valid entities are: " >>
                  \o join(", ", Sacctmgr_VALID_ENTITIES))
    ELSE Ok(NoCmd)

\* the readonly decision taken from the table alone, the caller's use_readonly ignored
Sacctmgr_build_readonly_TableOnly(command, use_readonly) ==
    In(Str(lower(command)), Sacctmgr_READONLY_COMMANDS)

\* _build_command: "if use_readonly is None: ...; if use_readonly:"
Sacctmgr_build_readonly(command, use_readonly) ==
    IF use_readonly = "None"
    THEN In(Str(lower(command)), Sacctmgr_READONLY_COMMANDS)
    ELSE use_readonly = "True"

\* the --json decision without JSON_SUPPORTED_COMMANDS
Sacctmgr_build_json_AnyVerb(command, use_json) == use_json

\* the --json decision with the verb compared as the caller wrote it
Sacctmgr_build_json_CaseSensitive(command, use_json) ==
    use_json /\ In(Str(command), Sacctmgr_JSON_SUPPORTED_COMMANDS)

\* _build_command: "if use_json and command.lower() in self.JSON_SUPPORTED_COMMANDS"
Sacctmgr_build_json(command, use_json) ==
    use_json /\ In(Str(lower(command)), Sacctmgr_JSON_SUPPORTED_COMMANDS)

\* _build_command with --json appended before --readonly
Sacctmgr_build_head_JsonFirst(p, command, entity, use_json, use_readonly) ==
    << p, "--immediate" >>
    \o (IF Sacctmgr_build_json(command, use_json) THEN << "--json" >> ELSE << >>)
    \o (IF Sacctmgr_build_readonly(command, use_readonly) THEN << "--readonly" >> ELSE << >>)
    \o << Str(command), Str(entity) >>

\* _build_command up to "cmd.extend([command, entity])"
Sacctmgr_build_head(p, command, entity, use_json, use_readonly) ==
    << p, "--immediate" >>
    \o (IF Sacctmgr_build_readonly(command, use_readonly) THEN << "--readonly" >> ELSE << >>)
    \o (IF Sacctmgr_build_json(command, use_json) THEN << "--json" >> ELSE << >>)
    \o << Str(command), Str(entity) >>

Sacctmgr_build_command(p, command, entity, options, use_json, use_readonly) ==
    ExtendWithOptions(Sacctmgr_build_head(p, command, entity, use_json, use_readonly), options)

\* is_readonly taken from the table alone, the caller's use_readonly ignored
Sacctmgr_is_readonly_TableOnly(command, use_readonly) ==
    In(Str(lower(command)), Sacctmgr_READONLY_COMMANDS)

\* run_command: "is_readonly = use_readonly if use_readonly is not None else ..."
Sacctmgr_is_readonly(command, use_readonly) ==
    IF use_readonly # "None"
    THEN use_readonly = "True"
    ELSE In(Str(lower(command)), Sacctmgr_READONLY_COMMANDS)

----------------------------------------------------------------------------
(* class ScontrolHelper *)

\* validate_command with the message listing another table of the class
Scontrol_validate_command_WrongList(command) ==
    IF ~In(Str(lower(command)), Scontrol_VALID_COMMANDS)
    THEN FailJson(<< "Invalid scontrol command: ", Str(command), ". Valid commands are: " >>
                  \o join(", ", Scontrol_READONLY_COMMANDS))
    ELSE Ok(NoCmd)

Scontrol_validate_command(command) ==
    IF ~In(Str(lower(command)), Scontrol_VALID_COMMANDS)
    THEN FailJson(<< "Invalid scontrol command: ", Str(command), ". Valid commands are: " >>
                  \o join(", ", Scontrol_VALID_COMMANDS))
    ELSE Ok(NoCmd)

Scontrol_validate_show_entity(entity) ==
    IF ~In(Str(lower(entity)), Scontrol_SHOW_ENTITIES)
    THEN FailJson(<< "Invalid show entity: ", Str(entity), ". Valid entities are: " >>
                  \o join(", ", Scontrol_SHOW_ENTITIES))
    ELSE Ok(NoCmd)

Scontrol_validate_update_entity(entity) ==
    IF ~In(Str(lower(entity)), Scontrol_UPDATE_ENTITIES)
    THEN FailJson(<< "Invalid update entity: ", Str(entity), ". Valid entities are: " >>
                  \o join(", ", Scontrol_UPDATE_ENTITIES))
    ELSE Ok(NoCmd)

Scontrol_validate_create_entity(entity) ==
    IF ~In(Str(lower(entity)), Scontrol_CREATE_ENTITIES)
    THEN FailJson(<< "Invalid create entity: ", Str(entity), ". Valid entities are: " >>
                  \o join(", ", Scontrol_CREATE_ENTITIES))
    ELSE Ok(NoCmd)

Scontrol_validate_delete_entity(entity) ==
    IF ~In(Str(lower(entity)), Scontrol_DELETE_ENTITIES)
    THEN FailJson(<< "Invalid delete entity: ", Str(entity), ". Valid entities are: " >>
                  \o join(", ", Scontrol_DELETE_ENTITIES))
    ELSE Ok(NoCmd)

\* "entity = None; if isinstance(options, list) and len(options) > 0: entity = options[0]
\*  elif isinstance(options, str): entity = options.split()[0]", for truthy options:
\* the entity, None, or the IndexError of [0] on an empty split
Scontrol_extract_entity(options) ==
    IF options.kind = "list" /\ Len(options.val) > 0
    THEN [exc |-> "", none |-> FALSE, entity |-> options.val[1]]
    ELSE IF options.kind = "str"
    THEN IF split(options.val) = << >>
         THEN [exc |-> "IndexError: list index out of range", none |-> TRUE, entity |-> << >>]
         ELSE [exc |-> "", none |-> FALSE, entity |-> split(options.val)[1]]
    ELSE [exc |-> "", none |-> TRUE, entity |-> << >>]

\* run_command from "Validate command" to the call of _build_command; each branch of
\* "Additional validation based on command type" extracts the entity and, "if entity:",
\* validates it
Scontrol_validate(command, options) ==
    LET v == Scontrol_validate_command(command)
        verb == Str(lower(command))
        x == Scontrol_extract_entity(options)
        Branch(checked) ==
            IF x.exc # "" THEN Raise(x.exc)
            ELSE IF ~x.none /\ x.entity # << >> THEN checked
            ELSE Ok(NoCmd)
    IN
    IF v.kind # "ok" THEN v
    ELSE IF verb = "show" /\ Truthy(options)
    THEN Branch(Scontrol_validate_show_entity(x.entity))
    ELSE IF verb = "update" /\ Truthy(options)
    THEN Branch(Scontrol_validate_update_entity(x.entity))
    ELSE IF verb = "create" /\ Truthy(options)
    THEN Branch(Scontrol_validate_create_entity(x.entity))
    ELSE IF verb = "delete" /\ Truthy(options)
    THEN Branch(Scontrol_validate_delete_entity(x.entity))
    ELSE Ok(NoCmd)

\* the --json decision without the test of the entity
Scontrol_build_json_AnyEntity(command, options, use_json) ==
    [exc |-> "", flag |-> use_json /\ In(Str(lower(command)), Scontrol_JSON_SUPPORTED_COMMANDS)]

\* _build_command, "Add --json for supported commands": whether --json is appended,
\* or the IndexError of options.split()[0]
Scontrol_build_json(command, options, use_json) ==
    IF use_json /\ In(Str(lower(command)), Scontrol_JSON_SUPPORTED_COMMANDS)
    THEN IF Str(lower(command)) = "show" /\ Truthy(options)
         THEN LET x == Scontrol_extract_entity(options) IN
              IF x.exc # "" THEN [exc |-> x.exc, flag |-> FALSE]
              ELSE [exc |-> "",
                    flag |-> ~x.none /\ x.entity # << >>
                             /\ In(Str(lower(x.entity)), Scontrol_JSON_SUPPORTED_ENTITIES)]
         ELSE [exc |-> "", flag |-> FALSE]
    ELSE [exc |-> "", flag |-> FALSE]

\* _build_command with '--readonly' appended for the verbs of READONLY_COMMANDS
Scontrol_build_command_Readonly(p, command, options, use_json) ==
    LET j == Scontrol_build_json(command, options, use_json) IN
    IF j.exc # "" THEN Raise(j.exc)
    ELSE ExtendWithOptions(<< p >>
                           \o (IF In(Str(lower(command)), Scontrol_READONLY_COMMANDS)
                               THEN << "--readonly" >> ELSE << >>)
                           \o (IF j.flag THEN << "--json" >> ELSE << >>)
                           \o << Str(command) >>, options)

Scontrol_build_command(p, command, options, use_json) ==
    LET j == Scontrol_build_json(command, options, use_json) IN
    IF j.exc # "" THEN Raise(j.exc)
    ELSE ExtendWithOptions(<< p >> \o (IF j.flag THEN << "--json" >> ELSE << >>)
                           \o << Str(command) >>, options)

\* run_command: "is_readonly = command.lower() in self.READONLY_COMMANDS"
Scontrol_is_readonly(command) == In(Str(lower(command)), Scontrol_READONLY_COMMANDS)

----------------------------------------------------------------------------
(* The subprocess and its output *)

\* what the tool printed, in the runs the model considers
Stdouts == {"", "  \n", "{\"accounts\": []}\n", "not json\n"}

\* str.strip() of those
strip(s) ==
    CASE s = "  \n" -> ""
      [] s = "{\"accounts\": []}\n" -> "{\"accounts\": []}"
      [] s = "not json\n" -> "not json"
      [] OTHER -> s

\* json.loads of those: the value, or the text of the JSONDecodeError
json_loads(s) ==
    IF strip(s) = "{\"accounts\": []}"
    THEN [err |-> "", value |-> "{'accounts': []}"]
    ELSE [err |-> "Expecting value: line 1 column 1 (char 0)", value |-> "None"]

\* what a run that exits non-zero printed on stdout: the code copies it and never
\* looks into it
FailedStdouts == {"{\"accounts\": []}\n", "not json\n"}

\* what subprocess.run(cmd, capture_output=True, text=True, timeout=300) does:
\* the process exits, the timeout expires, or the launch raises an OSError
ProcOutcomes ==
    { [kind |-> "exit", returncode |-> 0, stdout |-> so, stderr |-> "", text |-> ""]
        : so \in Stdouts }
    \cup { [kind |-> "exit", returncode |-> 1, stdout |-> so, stderr |-> "error\n",
            text |-> ""] : so \in FailedStdouts }
    \cup { [kind |-> "timeout", returncode |-> 0, stdout |-> "", stderr |-> "", text |-> ""],
           [kind |-> "oserror", returncode |-> 0, stdout |-> "", stderr |-> "",
            text |-> "[Errno 13] Permission denied"] }

\* subprocess.run was not called
NoProc == [kind |-> "none", returncode |-> 0, stdout |-> "", stderr |-> "", text |-> ""]

\* the key json_parse_error is not in the dict
NoKey == "<no key>"

\* no dict was returned
NoResult == [success |-> FALSE, stdout |-> "", stderr |-> "", data |-> "None",
             changed |-> FALSE, command |-> << >>, json_parse_error |-> "<no result>"]

\* run_command: "result = {...}" before the try
initial_result(is_readonly, c) ==
    [success |-> FALSE, stdout |-> "", stderr |-> "", data |-> "None",
     changed |-> ~is_readonly, command |-> join(" ", c), json_parse_error |-> NoKey]

\* the condition without "result['success']"
Sacctmgr_parse_json_AnyExit(command, use_json, p) ==
    /\ use_json
    /\ In(Str(lower(command)), Sacctmgr_JSON_SUPPORTED_COMMANDS)
    /\ strip(p.stdout) # ""

\* run_command: the condition of "Parse JSON output if requested and command succeeded"
Sacctmgr_parse_json(command, use_json, p) ==
    /\ p.returncode = 0
    /\ use_json
    /\ In(Str(lower(command)), Sacctmgr_JSON_SUPPORTED_COMMANDS)
    /\ strip(p.stdout) # ""

Scontrol_parse_json(command, use_json, p) ==
    /\ p.returncode = 0
    /\ use_json
    /\ In(Str(lower(command)), Scontrol_JSON_SUPPORTED_COMMANDS)
    /\ strip(p.stdout) # ""

\* the try body without "if not result['success']: result['changed'] = False"
fill_result_KeepsChanged(r0, p, parse) ==
    LET r1 == [r0 EXCEPT !.stdout = p.stdout, !.stderr = p.stderr,
                         !.success = (p.returncode = 0)]
        j == json_loads(p.stdout)
    IN IF parse
       THEN IF j.err = "" THEN [r1 EXCEPT !.data = j.value]
            ELSE [r1 EXCEPT !.json_parse_error = j.err]
       ELSE r1

\* the try body with "except json.JSONDecodeError: pass"
fill_result_DropsParseError(r0, p, parse) ==
    LET r1 == [r0 EXCEPT !.stdout = p.stdout, !.stderr = p.stderr,
                         !.success = (p.returncode = 0)]
        j == json_loads(p.stdout)
        r2 == IF parse /\ j.err = "" THEN [r1 EXCEPT !.data = j.value] ELSE r1
    IN IF ~r2.success THEN [r2 EXCEPT !.changed = FALSE] ELSE r2

\* the try body with the raw stdout stored as data when json.loads fails
fill_result_RawOnError(r0, p, parse) ==
    LET r1 == [r0 EXCEPT !.stdout = p.stdout, !.stderr = p.stderr,
                         !.success = (p.returncode = 0)]
        j == json_loads(p.stdout)
        r2 == IF parse
              THEN IF j.err = "" THEN [r1 EXCEPT !.data = j.value]
                   ELSE [r1 EXCEPT !.json_parse_error = j.err, !.data = p.stdout]
              ELSE r1
    IN IF ~r2.success THEN [r2 EXCEPT !.changed = FALSE] ELSE r2

\* run_command: the body of the try once subprocess.run has returned p
fill_result(r0, p, parse) ==
    LET r1 == [r0 EXCEPT !.stdout = p.stdout, !.stderr = p.stderr,
                         !.success = (p.returncode = 0)]
        j == json_loads(p.stdout)
        r2 == IF parse
              THEN IF j.err = "" THEN [r1 EXCEPT !.data = j.value]
                   ELSE [r1 EXCEPT !.json_parse_error = j.err]
              ELSE r1
    IN IF ~r2.success THEN [r2 EXCEPT !.changed = FALSE] ELSE r2

\* the timeout message without the command line
timeout_msg_NoCommand(c) == << "Command timed out after 300 seconds: " >>

\* run_command: "except subprocess.TimeoutExpired"
timeout_msg(c) == << "Command timed out after 300 seconds: " >> \o join(" ", c)

\* the launch failure message without str(e)
launch_failure_msg_NoText(e) == << "Failed to execute command: " >>

\* run_command: "except Exception as e"
launch_failure_msg(e) == << "Failed to execute command: ", e >>

----------------------------------------------------------------------------
(* The requests the model considers *)

Tools == {"sacctmgr", "scontrol"}

\* the characters of an options string
Chars == {"job", "x", " ", "'"}

\* the elements of an options list
Tokens == {W("job"), W("JOB"), W("daemons"), W("node"), << >>, W("--json"), W("--readonly")}

Strings == UNION {[1..n -> Chars] : n \in 0..MaxStrLen}

Lists == UNION {[1..n -> Tokens] : n \in 0..MaxListLen}

Options ==
    {OptNone, OptOtherFalsy, OptOtherTruthy}
    \cup {OptStr(s) : s \in Strings} \cup {OptList(l) : l \in Lists}

\* the verbs given to run_command directly (delete and modify, which the code treats
\* as it treats add, come through their facades)
SacctmgrVerbs == {W("show"), W("SHOW"), W("list"), W("dump"), W("add"), W("bogus")}

SacctmgrEntities == {W("account"), W("ACCOUNT"), W("bogus")}

ScontrolVerbs ==
    {W("show"), W("Show"), W("update"), W("UPDATE"), W("create"), W("delete"),
     W("hold"), W("ping"), W("bogus")}

\* use_readonly: None, True or False
Overrides == {"None", "True", "False"}

Requests(t) ==
    IF t = "sacctmgr"
    THEN [command : SacctmgrVerbs, entity : SacctmgrEntities, options : Options,
          use_json : BOOLEAN, use_readonly : Overrides, via : {"run_command"}]
    ELSE [command : ScontrolVerbs, entity : {<< >>}, options : Options,
          use_json : BOOLEAN, use_readonly : {"None"}, via : {"run_command"}]

NoReq == [command |-> << >>, entity |-> << >>, options |-> OptNone,
          use_json |-> FALSE, use_readonly |-> "None", via |-> ""]

----------------------------------------------------------------------------
(* The gateway *)

Init ==
    /\ tool \in Tools
    /\ path = ""
    /\ located = 0
    /\ reused = FALSE
    /\ pc = "new"
    /\ req = NoReq
    /\ cmd = NoCmd
    /\ spawned = 0
    /\ proc = NoProc
    /\ decoded = 0
    /\ result = NoResult
    /\ fatal = NoMsg
    /\ raised = ""

\* what subprocess.run(['which', tool], capture_output=True, text=True, check=True)
\* does: `which` prints the path and exits 0, `which` exits non-zero
\* (CalledProcessError), or `which` itself cannot be run (FileNotFoundError)
WhichOutcomes == {"found", "missing", "nowhich"}

\* __init__ and _find_sacctmgr / _find_scontrol
Construct ==
    /\ pc = "new"
    /\ located' = located + 1
    /\ \E w \in WhichOutcomes :
          IF w = "found"
          THEN /\ path' = "/usr/bin/" \o tool
               /\ pc' = "idle"
               /\ fatal' = fatal
               /\ raised' = raised
          ELSE IF w = "missing"
          THEN /\ path' = path
               /\ pc' = "unusable"
               /\ fatal' = << tool \o " command not found in PATH" >>
               /\ raised' = raised
          ELSE /\ path' = path
               /\ pc' = "unusable"
               /\ fatal' = fatal
               /\ raised' = "FileNotFoundError: [Errno 2] No such file or directory: 'which'"
    /\ UNCHANGED <<tool, reused, req, cmd, spawned, proc, decoded, result>>

\* the caller calls run_command(command, entity, options, use_json, use_readonly)
\* (run_command(command, options, use_json) of ScontrolHelper)
run_command ==
    /\ pc = "idle"
    /\ \E r \in Requests(tool) : req' = r
    /\ pc' = "validate"
    /\ UNCHANGED <<tool, path, located, reused, cmd, spawned, proc, decoded, result, fatal, raised>>

\* Continue with a module.fail_json that returns to its caller instead of ending the call
Continue_FailJsonReturns(h, next) ==
    /\ pc' = IF h.kind = "raised" THEN "raised" ELSE next
    /\ fatal' = h.msg
    /\ raised' = h.exc

\* SacctmgrHelper.show with "use_json=False"
Sacctmgr_show_args_NoJson(entity, options) ==
    [command |-> W("show"), entity |-> entity, options |-> options,
     use_json |-> FALSE, use_readonly |-> "True", via |-> "show"]

\* SacctmgrHelper.show: the run_command call it makes
Sacctmgr_show_args(entity, options) ==
    [command |-> W("show"), entity |-> entity, options |-> options,
     use_json |-> TRUE, use_readonly |-> "True", via |-> "show"]

\* SacctmgrHelper.add with the keyword arguments of show
Sacctmgr_add_args_AsShow(entity, options) ==
    [command |-> W("add"), entity |-> entity, options |-> options,
     use_json |-> TRUE, use_readonly |-> "True", via |-> "add"]

\* SacctmgrHelper.add: the run_command call it makes
Sacctmgr_add_args(entity, options) ==
    [command |-> W("add"), entity |-> entity, options |-> options,
     use_json |-> FALSE, use_readonly |-> "False", via |-> "add"]

\* SacctmgrHelper.delete: the run_command call it makes
Sacctmgr_delete_args(entity, options) ==
    [command |-> W("delete"), entity |-> entity, options |-> options,
     use_json |-> FALSE, use_readonly |-> "False", via |-> "delete"]

\* SacctmgrHelper.modify: the run_command call it makes
Sacctmgr_modify_args(entity, options) ==
    [command |-> W("modify"), entity |-> entity, options |-> options,
     use_json |-> FALSE, use_readonly |-> "False", via |-> "modify"]

\* a facade method of either class enters run_command with the arguments it chose
Facade(r) ==
    /\ req' = r
    /\ pc' = "validate"
    /\ UNCHANGED <<tool, path, located, reused, cmd, spawned, proc, decoded, result, fatal, raised>>

\* the caller calls show(entity, options)
Sacctmgr_show ==
    /\ pc = "idle" /\ tool = "sacctmgr"
    /\ \E e \in SacctmgrEntities, o \in Options : Facade(Sacctmgr_show_args(e, o))

\* the caller calls add(entity, options)
Sacctmgr_add ==
    /\ pc = "idle" /\ tool = "sacctmgr"
    /\ \E e \in SacctmgrEntities, o \in Options : Facade(Sacctmgr_add_args(e, o))

\* the caller calls delete(entity, options)
Sacctmgr_delete ==
    /\ pc = "idle" /\ tool = "sacctmgr"
    /\ \E e \in SacctmgrEntities, o \in Options : Facade(Sacctmgr_delete_args(e, o))

\* the caller calls modify(entity, options)
Sacctmgr_modify ==
    /\ pc = "idle" /\ tool = "sacctmgr"
    /\ \E e \in SacctmgrEntities, o \in Options : Facade(Sacctmgr_modify_args(e, o))

\* the arguments the callers of the ScontrolHelper facades pass: an entity, a
\* specification or identifier or job list (one str each, some with whitespace inside)
ScontrolFacadeEntities == {W("node"), W("JOB"), W("bogus"), << >>}

ScontrolFacadeArgs == {W("x"), << "job", " ", "x" >>, W("--json")}

\* ScontrolHelper.show: the run_command call it makes ("if identifier:" is false for
\* None and for '', both written << >> here)
Scontrol_show_args(entity, identifier, use_json) ==
    [command |-> W("show"), entity |-> << >>,
     options |-> OptList(<< entity >> \o (IF identifier # << >> THEN << identifier >>
                                          ELSE << >>)),
     use_json |-> use_json, use_readonly |-> "None", via |-> "show"]

\* ScontrolHelper.update with entity and specification joined into one options string
Scontrol_update_args_AsString(entity, specification) ==
    [command |-> W("update"), entity |-> << >>,
     options |-> OptStr(entity \o << " " >> \o specification),
     use_json |-> FALSE, use_readonly |-> "None", via |-> "update"]

\* ScontrolHelper.update: the run_command call it makes
Scontrol_update_args(entity, specification) ==
    [command |-> W("update"), entity |-> << >>,
     options |-> OptList(<< entity, specification >>),
     use_json |-> FALSE, use_readonly |-> "None", via |-> "update"]

\* ScontrolHelper.create: the run_command call it makes
Scontrol_create_args(entity, specification) ==
    [command |-> W("create"), entity |-> << >>,
     options |-> OptList(<< entity, specification >>),
     use_json |-> FALSE, use_readonly |-> "None", via |-> "create"]

\* ScontrolHelper.delete: the run_command call it makes
Scontrol_delete_args(entity, specification) ==
    [command |-> W("delete"), entity |-> << >>,
     options |-> OptList(<< entity, specification >>),
     use_json |-> FALSE, use_readonly |-> "None", via |-> "delete"]

\* ScontrolHelper.hold: the run_command call it makes
Scontrol_hold_args(job_list) ==
    [command |-> W("hold"), entity |-> << >>, options |-> OptList(<< job_list >>),
     use_json |-> FALSE, use_readonly |-> "None", via |-> "hold"]

\* ScontrolHelper.release: the run_command call it makes
Scontrol_release_args(job_list) ==
    [command |-> W("release"), entity |-> << >>, options |-> OptList(<< job_list >>),
     use_json |-> FALSE, use_readonly |-> "None", via |-> "release"]

\* ScontrolHelper.suspend: the run_command call it makes
Scontrol_suspend_args(job_list) ==
    [command |-> W("suspend"), entity |-> << >>, options |-> OptList(<< job_list >>),
     use_json |-> FALSE, use_readonly |-> "None", via |-> "suspend"]

\* ScontrolHelper.resume: the run_command call it makes
Scontrol_resume_args(job_list) ==
    [command |-> W("resume"), entity |-> << >>, options |-> OptList(<< job_list >>),
     use_json |-> FALSE, use_readonly |-> "None", via |-> "resume"]

\* the caller calls show(entity, identifier, use_json)
Scontrol_show ==
    /\ pc = "idle" /\ tool = "scontrol"
    /\ \E e \in ScontrolFacadeEntities, i \in ScontrolFacadeArgs \cup {<< >>}, j \in BOOLEAN :
          Facade(Scontrol_show_args(e, i, j))

\* the caller calls update(entity, specification)
Scontrol_update ==
    /\ pc = "idle" /\ tool = "scontrol"
    /\ \E e \in ScontrolFacadeEntities, s \in ScontrolFacadeArgs :
          Facade(Scontrol_update_args(e, s))

\* the caller calls create(entity, specification)
Scontrol_create ==
    /\ pc = "idle" /\ tool = "scontrol"
    /\ \E e \in ScontrolFacadeEntities, s \in ScontrolFacadeArgs :
          Facade(Scontrol_create_args(e, s))

\* the caller calls delete(entity, specification)
Scontrol_delete ==
    /\ pc = "idle" /\ tool = "scontrol"
    /\ \E e \in ScontrolFacadeEntities, s \in ScontrolFacadeArgs :
          Facade(Scontrol_delete_args(e, s))

\* the caller calls hold(job_list)
Scontrol_hold ==
    /\ pc = "idle" /\ tool = "scontrol"
    /\ \E l \in ScontrolFacadeArgs : Facade(Scontrol_hold_args(l))

\* the caller calls release(job_list)
Scontrol_release ==
    /\ pc = "idle" /\ tool = "scontrol"
    /\ \E l \in ScontrolFacadeArgs : Facade(Scontrol_release_args(l))

\* the caller calls suspend(job_list)
Scontrol_suspend ==
    /\ pc = "idle" /\ tool = "scontrol"
    /\ \E l \in ScontrolFacadeArgs : Facade(Scontrol_suspend_args(l))

\* the caller calls resume(job_list)
Scontrol_resume ==
    /\ pc = "idle" /\ tool = "scontrol"
    /\ \E l \in ScontrolFacadeArgs : Facade(Scontrol_resume_args(l))

\* how a step of run_command that handed back h goes on
Continue(h, next) ==
    /\ pc' = IF h.kind = "ok" THEN next ELSE h.kind
    /\ fatal' = h.msg
    /\ raised' = h.exc

\* SacctmgrHelper.run_command, "Validate inputs"
Sacctmgr_run_validate ==
    /\ pc = "validate" /\ tool = "sacctmgr"
    /\ LET v == Sacctmgr_validate_command(req.command) IN
       Continue(IF v.kind # "ok" THEN v ELSE Sacctmgr_validate_entity(req.entity), "build")
    /\ UNCHANGED <<tool, path, located, reused, req, cmd, spawned, proc, decoded, result>>

\* ScontrolHelper.run_command, "Validate command" and "Additional validation"
Scontrol_run_validate ==
    /\ pc = "validate" /\ tool = "scontrol"
    /\ Continue(Scontrol_validate(req.command, req.options), "build")
    /\ UNCHANGED <<tool, path, located, reused, req, cmd, spawned, proc, decoded, result>>

\* SacctmgrHelper.run_command, "Build the command"
Sacctmgr_run_build ==
    /\ pc = "build" /\ tool = "sacctmgr"
    /\ LET b == Sacctmgr_build_command(path, req.command, req.entity, req.options,
                                       req.use_json, req.use_readonly) IN
       /\ Continue(b, "execute")
       /\ cmd' = b.cmd
    /\ UNCHANGED <<tool, path, located, reused, req, spawned, proc, decoded, result>>

\* ScontrolHelper.run_command, "Build the command"
Scontrol_run_build ==
    /\ pc = "build" /\ tool = "scontrol"
    /\ LET b == Scontrol_build_command(path, req.command, req.options, req.use_json) IN
       /\ Continue(b, "execute")
       /\ cmd' = b.cmd
    /\ UNCHANGED <<tool, path, located, reused, req, spawned, proc, decoded, result>>

\* run_command with a retry: after anything but a successful exit the tool is started again
Execute_Retries(p, is_readonly, parse) ==
    /\ spawned' = spawned + 1
    /\ proc' = p
    /\ IF p.kind = "exit" /\ p.returncode = 0
       THEN /\ result' = fill_result(initial_result(is_readonly, cmd), p, parse)
            /\ decoded' = IF parse THEN decoded + 1 ELSE decoded
            /\ pc' = "returned"
       ELSE /\ result' = result
            /\ decoded' = decoded
            /\ pc' = "execute"
    /\ UNCHANGED <<tool, path, located, reused, req, cmd, fatal, raised>>

\* run_command from "result = {...}" to its end, given what subprocess.run did
Execute(p, is_readonly, parse) ==
    /\ spawned' = spawned + 1
    /\ proc' = p
    /\ IF p.kind = "exit"
       THEN /\ result' = fill_result(initial_result(is_readonly, cmd), p, parse)
            /\ decoded' = IF parse THEN decoded + 1 ELSE decoded
            /\ pc' = "returned"
            /\ fatal' = fatal
       ELSE /\ result' = result
            /\ decoded' = decoded
            /\ pc' = "fatal"
            /\ fatal' = IF p.kind = "timeout" THEN timeout_msg(cmd)
                        ELSE launch_failure_msg(p.text)
    /\ UNCHANGED <<tool, path, located, reused, req, cmd, raised>>

\* SacctmgrHelper.run_command, "Determine if this command makes changes" to the end
Sacctmgr_run_execute ==
    /\ pc = "execute" /\ tool = "sacctmgr"
    /\ \E p \in ProcOutcomes :
          Execute(p, Sacctmgr_is_readonly(req.command, req.use_readonly),
                  Sacctmgr_parse_json(req.command, req.use_json, p))

\* ScontrolHelper.run_command, "Determine if this command makes changes" to the end
Scontrol_run_execute ==
    /\ pc = "execute" /\ tool = "scontrol"
    /\ \E p \in ProcOutcomes :
          Execute(p, Scontrol_is_readonly(req.command),
                  Scontrol_parse_json(req.command, req.use_json, p))

\* the end of a call that also drops the path of the instance
Leave_DropsPath ==
    /\ pc \in {"returned", "fatal", "raised"}
    /\ pc' = "idle"
    /\ reused' = TRUE
    /\ path' = ""
    /\ req' = NoReq
    /\ cmd' = NoCmd
    /\ spawned' = 0
    /\ proc' = NoProc
    /\ decoded' = 0
    /\ result' = NoResult
    /\ fatal' = NoMsg
    /\ raised' = ""
    /\ UNCHANGED <<tool, located>>

\* run_command is over (it returned, failed the module, or raised): the caller goes on
\* and the locals of the call are gone
Leave ==
    /\ pc \in {"returned", "fatal", "raised"}
    /\ pc' = "idle"
    /\ reused' = TRUE
    /\ req' = NoReq
    /\ cmd' = NoCmd
    /\ spawned' = 0
    /\ proc' = NoProc
    /\ decoded' = 0
    /\ result' = NoResult
    /\ fatal' = NoMsg
    /\ raised' = ""
    /\ UNCHANGED <<tool, path, located>>

Next ==
    \/ Construct
    \/ run_command
    \/ Sacctmgr_show
    \/ Sacctmgr_add
    \/ Sacctmgr_delete
    \/ Sacctmgr_modify
    \/ Scontrol_show
    \/ Scontrol_update
    \/ Scontrol_create
    \/ Scontrol_delete
    \/ Scontrol_hold
    \/ Scontrol_release
    \/ Scontrol_suspend
    \/ Scontrol_resume
    \/ Sacctmgr_run_validate
    \/ Scontrol_run_validate
    \/ Sacctmgr_run_build
    \/ Scontrol_run_build
    \/ Sacctmgr_run_execute
    \/ Scontrol_run_execute
    \/ Leave

Spec == Init /\ [][Next]_vars

----------------------------------------------------------------------------
(* Vocabulary of the properties *)

Range(list) == {list[i] : i \in DOMAIN list}

\* a run_command call has been made and its arguments are in req
InCall == pc \in {"validate", "build", "execute", "returned", "fatal", "raised"}

\* the call has got past the step that validates the verb
PastValidation == pc \in {"build", "execute", "returned", "fatal", "raised"}

\* the verb of the request, lowercased
Verb == Str(lower(req.command))

ValidCommands == IF tool = "sacctmgr" THEN Sacctmgr_VALID_COMMANDS ELSE Scontrol_VALID_COMMANDS

\* the items a message lists after its three leading fragments (text, name, text),
\* with the separators between them left out
Listed(msg) == [i \in 1..((Len(msg) - 2) \div 2) |-> msg[2 + 2 * i]]

\* the message lists every element of list once, and nothing else, separated by ", "
EnumeratesExactly(msg, list) ==
    /\ Len(msg) = 2 + 2 * Len(list)
    /\ \A v \in Range(list) : Cardinality({i \in DOMAIN Listed(msg) : Listed(msg)[i] = v}) = 1
    /\ \A i \in DOMAIN Listed(msg) : Listed(msg)[i] \in Range(list)
    /\ \A i \in 1..(Len(list) - 1) : msg[3 + 2 * i] = ", "

----------------------------------------------------------------------------
(* C1: on either gateway, run_command with a verb whose lowercased form is  *)
(* not in the tool's VALID_COMMANDS ends in fail_json, with a message that  *)
(* names the verb as given and lists every valid verb once and no other.    *)
C1_InvalidVerbIsFatal ==
    (PastValidation /\ ~In(Verb, ValidCommands))
        => /\ pc = "fatal"
           /\ fatal[1] = "Invalid " \o tool \o " command: "
           /\ fatal[2] = Str(req.command)
           /\ EnumeratesExactly(fatal, ValidCommands)

\* an invalid verb was rejected by the scontrol gateway
C1_Witness ==
    /\ tool = "scontrol" /\ pc = "fatal" /\ Verb = "bogus"
    /\ fatal[1] = "Invalid scontrol command: "
    /\ fatal[2] = "bogus"

----------------------------------------------------------------------------
(* The entity of a request: the entity argument of SacctmgrHelper; for      *)
(* ScontrolHelper the first token of the options, where options has one     *)
(* (the first element of a list, the first whitespace-separated word of a   *)
(* string)                                                                  *)

EntityVerbs == {"show", "update", "create", "delete"}

HasFirstToken ==
    \/ req.options.kind = "list" /\ Len(req.options.val) > 0
    \/ req.options.kind = "str" /\ split(req.options.val) # << >>

FirstToken ==
    IF req.options.kind = "list" THEN req.options.val[1] ELSE split(req.options.val)[1]

HasEntity == IF tool = "sacctmgr" THEN TRUE ELSE Verb \in EntityVerbs /\ HasFirstToken

Entity == IF tool = "sacctmgr" THEN req.entity ELSE FirstToken

\* the entities legal for the verb of the request
ApplicableEntities ==
    IF tool = "sacctmgr" THEN Sacctmgr_VALID_ENTITIES
    ELSE CASE Verb = "show" -> Scontrol_SHOW_ENTITIES
           [] Verb = "update" -> Scontrol_UPDATE_ENTITIES
           [] Verb = "create" -> Scontrol_CREATE_ENTITIES
           [] OTHER -> Scontrol_DELETE_ENTITIES

----------------------------------------------------------------------------
(* C2: a request (with a valid verb) whose entity, lowercased, is not in    *)
(* the set applicable to its verb is rejected by validation with a fatal    *)
(* error that lists exactly that set: VALID_ENTITIES for sacctmgr; for      *)
(* scontrol, SHOW_ENTITIES, UPDATE_ENTITIES, CREATE_ENTITIES or             *)
(* DELETE_ENTITIES by verb, the entity being the first option token.        *)
C2_InvalidEntityIsFatal ==
    (/\ PastValidation
     /\ In(Verb, ValidCommands)
     /\ HasEntity
     /\ ~In(Str(lower(Entity)), ApplicableEntities))
        => /\ pc = "fatal"
           /\ fatal[2] = Str(Entity)
           /\ EnumeratesExactly(fatal, ApplicableEntities)

----------------------------------------------------------------------------
(* C3: a run_command call that ends in a validation error (invalid verb,    *)
(* invalid entity, invalid options type) never spawned the tool: the error  *)
(* comes before the execute step, on both gateways.                         *)
ValidationErrors ==
    { "Invalid sacctmgr command: ", "Invalid scontrol command: ",
      "Invalid sacctmgr entity: ", "Invalid show entity: ", "Invalid update entity: ",
      "Invalid create entity: ", "Invalid delete entity: ",
      "Options must be a string or list" }

C3_ValidationErrorBeforeSpawn ==
    (fatal # NoMsg /\ fatal[1] \in ValidationErrors) => (spawned = 0 /\ proc = NoProc)

\* an options value of another type was rejected, and nothing was spawned
C3_Witness ==
    /\ pc = "fatal" /\ fatal = << "Options must be a string or list" >>
    /\ req.options = OptOtherTruthy /\ spawned = 0

----------------------------------------------------------------------------
(* C4: for every valid sacctmgr request the argument vector is the path,    *)
(* '--immediate', '--readonly' if present, '--json' if present, the verb,   *)
(* the entity, then the option tokens in their order (a string options      *)
(* shell-word-split, a list appended unchanged); '--immediate' is the       *)
(* second token and no flag follows the verb but from the options.          *)

\* the effective readonly status of a sacctmgr request
SacctmgrReadonly ==
    IF req.use_readonly # "None" THEN req.use_readonly = "True"
    ELSE Verb \in {"show", "list", "dump"}

\* whether JSON was requested of a verb that supports it
SacctmgrJson == req.use_json /\ Verb \in {"show", "list", "dump"}

\* the option tokens of the request
OptionTokens ==
    IF req.options.kind = "str" THEN Flat(shlex_split(req.options.val).tokens)
    ELSE IF req.options.kind = "list" THEN Flat(req.options.val)
    ELSE << >>

\* the vector has been built
Built == pc \in {"execute", "returned"} \/ (pc = "fatal" /\ spawned = 1)

C4_SacctmgrVector ==
    (tool = "sacctmgr" /\ Built)
        => LET flags == (IF SacctmgrReadonly THEN << "--readonly" >> ELSE << >>)
                        \o (IF SacctmgrJson THEN << "--json" >> ELSE << >>)
           IN /\ cmd = << path, "--immediate" >> \o flags
                       \o << Str(req.command), Str(req.entity) >> \o OptionTokens
              /\ cmd[2] = "--immediate"
              /\ path # ""

\* show account with the options string "job x": both flags, then two option tokens
C4_Witness ==
    /\ tool = "sacctmgr" /\ pc = "execute" /\ req.options.kind = "str"
    /\ cmd = << "/usr/bin/sacctmgr", "--immediate", "--readonly", "--json",
               "show", "account", "job", "x" >>

----------------------------------------------------------------------------
(* The part of the argument vector ahead of the verb token *)

VerbIndex == Len(cmd) - Len(OptionTokens) - (IF tool = "sacctmgr" THEN 1 ELSE 0)

AheadOfVerb == SubSeq(cmd, 1, VerbIndex - 1)

----------------------------------------------------------------------------
(* C5 as stated: for every sacctmgr request, '--readonly' is in the built   *)
(* argument vector if and only if the effective readonly status is true     *)
(* (the caller's use_readonly when it is not None, else whether the         *)
(* lowercased verb is show, list or dump).                                  *)
C5_ReadonlyInVector ==
    (tool = "sacctmgr" /\ Built) => (In("--readonly", cmd) <=> SacctmgrReadonly)

(* C5 as amended: for every sacctmgr request, '--readonly' is among the     *)
(* tokens ahead of the verb if and only if the effective readonly status is *)
(* true; after the entity the vector holds the caller's option tokens,      *)
(* which may include '--readonly' whatever the status.                      *)
C5_ReadonlyFlagInjected ==
    (tool = "sacctmgr" /\ Built) => (In("--readonly", AheadOfVerb) <=> SacctmgrReadonly)

\* use_readonly=True on add puts the flag in; the table alone would not
C5_Witness ==
    /\ tool = "sacctmgr" /\ Built /\ Verb = "add" /\ req.use_readonly = "True"
    /\ cmd[3] = "--readonly"

----------------------------------------------------------------------------
(* C6 as stated: on either gateway '--json' is in the built argument vector *)
(* if and only if JSON was requested, the lowercased verb is in             *)
(* JSON_SUPPORTED_COMMANDS and, for scontrol only, the lowercased first     *)
(* option token is in JSON_SUPPORTED_ENTITIES.                              *)

JsonSupportedCommands ==
    IF tool = "sacctmgr" THEN Sacctmgr_JSON_SUPPORTED_COMMANDS
    ELSE Scontrol_JSON_SUPPORTED_COMMANDS

JsonApplicable ==
    /\ req.use_json
    /\ In(Verb, JsonSupportedCommands)
    /\ tool = "scontrol"
         => /\ HasFirstToken
            /\ In(Str(lower(FirstToken)), Scontrol_JSON_SUPPORTED_ENTITIES)

----------------------------------------------------------------------------
(* C7: in every Result returned by run_command, on either gateway, changed  *)
(* is true if and only if the subprocess exited with code 0 and the         *)
(* effective readonly status is false.                                      *)

EffectiveReadonly ==
    IF tool = "sacctmgr" THEN SacctmgrReadonly
    ELSE In(Verb, Scontrol_READONLY_COMMANDS)

C7_ChangedIffSuccessAndMutating ==
    (pc = "returned")
        => /\ proc.kind = "exit"
           /\ result.success <=> (proc.returncode = 0)
           /\ result.changed <=> (proc.returncode = 0 /\ ~EffectiveReadonly)

\* a mutating scontrol verb that exited non-zero: changed was forced to false
C7_Witness ==
    /\ tool = "scontrol" /\ pc = "returned" /\ Verb = "update"
    /\ proc.returncode = 1 /\ ~result.changed /\ ~result.success

----------------------------------------------------------------------------
(* C8: on either gateway json.loads is attempted if and only if the run     *)
(* succeeded, stdout is non-empty after strip() and the request is          *)
(* json-applicable by the condition that puts '--json' in the vector (JSON  *)
(* requested, verb json-capable and, for scontrol, first option token in    *)
(* JSON_SUPPORTED_ENTITIES).                                                *)
C8_DecodeIffApplicable ==
    (pc = "returned")
        => ((decoded > 0)
              <=> (proc.returncode = 0 /\ strip(proc.stdout) # "" /\ JsonApplicable))

----------------------------------------------------------------------------
(* C9: when decoding is attempted and stdout is not valid JSON, run_command *)
(* does not fail the module: it returns a Result with success true, data    *)
(* None, json_parse_error set, and changed as for any successful run.       *)
C9_DecodeFailureIsAResult ==
    (decoded > 0 /\ json_loads(proc.stdout).err # "")
        => /\ pc = "returned" /\ fatal = NoMsg /\ raised = ""
           /\ result.success
           /\ result.data = "None"
           /\ result.json_parse_error \notin {NoKey, ""}
           /\ result.changed <=> ~EffectiveReadonly

\* sacctmgr show with use_readonly=False printed text: changed stays true beside the note
C9_Witness ==
    /\ tool = "sacctmgr" /\ pc = "returned" /\ decoded = 1
    /\ proc.stdout = "not json\n" /\ result.changed
    /\ result.json_parse_error = "Expecting value: line 1 column 1 (char 0)"

----------------------------------------------------------------------------
(* C10: when the subprocess exceeds the 300 second bound, run_command ends  *)
(* in a fatal error whose message is 'Command timed out after 300 seconds:  *)
(* ' followed by the whole argument vector joined by spaces; no Result is   *)
(* returned.                                                                *)
C10_TimeoutIsFatal ==
    (proc.kind = "timeout")
        => /\ pc = "fatal"
           /\ result = NoResult
           /\ fatal[1] = "Command timed out after 300 seconds: "
           /\ Len(fatal) = 2 * Len(cmd)
           /\ \A i \in 1..Len(cmd) : fatal[2 * i] = cmd[i]
           /\ \A i \in 1..(Len(cmd) - 1) : fatal[2 * i + 1] = " "
           /\ cmd[1] = path /\ Len(cmd) >= 2

\* the timeout of "sacctmgr show account"
C10_Witness ==
    /\ proc.kind = "timeout"
    /\ fatal = << "Command timed out after 300 seconds: ", "/usr/bin/sacctmgr", " ",
                 "--immediate", " ", "--readonly", " ", "--json", " ", "show", " ",
                 "account" >>

----------------------------------------------------------------------------
(* C11: when subprocess.run raises an error that is not a timeout,          *)
(* run_command ends in the fatal error 'Failed to execute command: '        *)
(* followed by the text of the error; the message is neither the timeout    *)
(* message nor a validation message, and no Result is returned.             *)
C11_LaunchFailureIsFatal ==
    (proc.kind = "oserror")
        => /\ pc = "fatal"
           /\ result = NoResult
           /\ raised = ""
           /\ fatal = << "Failed to execute command: ", proc.text >>
           /\ proc.text # ""
           /\ fatal[1] \notin ValidationErrors \cup {timeout_msg(cmd)[1]}

\* scontrol could not be executed: permission denied
C11_Witness ==
    /\ tool = "scontrol" /\ proc.kind = "oserror" /\ spawned = 1
    /\ fatal = << "Failed to execute command: ", "[Errno 13] Permission denied" >>

----------------------------------------------------------------------------
(* C12: when the subprocess runs and exits with a non-zero code,            *)
(* run_command does not fail the module: it returns a Result with success   *)
(* false, changed false, stdout and stderr as captured, data None and no    *)
(* json_parse_error, whatever the verb and the readonly setting.            *)
C12_ToolFailureIsAResult ==
    (proc.kind = "exit" /\ proc.returncode # 0)
        => /\ pc = "returned" /\ fatal = NoMsg /\ raised = ""
           /\ ~result.success
           /\ ~result.changed
           /\ result.stdout = proc.stdout
           /\ result.stderr = proc.stderr
           /\ result.data = "None"
           /\ result.json_parse_error = NoKey
           /\ decoded = 0

\* sacctmgr show with use_readonly=False exited 1 after printing JSON: nothing is decoded
C12_Witness ==
    /\ tool = "sacctmgr" /\ pc = "returned" /\ Verb = "show"
    /\ req.use_json /\ req.use_readonly = "False"
    /\ proc.returncode = 1 /\ proc.stdout = "{\"accounts\": []}\n"
    /\ result.stdout = "{\"accounts\": []}\n" /\ result.stderr = "error\n"
    /\ result.data = "None"

----------------------------------------------------------------------------
(* C13: the executable path is resolved exactly once per gateway instance,  *)
(* during construction and before any request.  If the tool is not found    *)
(* (construction ends without a path), construction ends in the fatal error *)
(* '<tool> command not found in PATH' and no request is ever accepted;      *)
(* otherwise every request executes with the same non-empty path and the    *)
(* locator is never run again.                                              *)

\* construction is over
Constructed == pc # "new"

C13_ResolvedOnce ==
    /\ located = (IF Constructed THEN 1 ELSE 0)
    /\ InCall => path # ""
    /\ Built => cmd[1] = path
    /\ (Constructed /\ path = "")
          => /\ pc = "unusable"
             /\ req = NoReq /\ spawned = 0
             /\ fatal = << tool \o " command not found in PATH" >>

C13_PathResolvedOnce ==
    /\ []C13_ResolvedOnce
    /\ [][Constructed => (path' = path /\ located' = located)]_vars

----------------------------------------------------------------------------
(* C14: SacctmgrHelper.show(entity, options) always requests JSON and       *)
(* forces readonly: for every valid entity and every list of options the    *)
(* call reaches execution, the executed vector is exactly path,             *)
(* '--immediate', '--readonly', '--json', 'show', the entity, then the      *)
(* options, and the returned changed is false whatever the exit code.       *)

\* the entity of a sacctmgr request is a valid one
ValidSacctmgrEntity == In(Str(lower(req.entity)), Sacctmgr_VALID_ENTITIES)

C14_ShowFacade ==
    (tool = "sacctmgr" /\ req.via = "show")
        => /\ (PastValidation /\ ValidSacctmgrEntity /\ req.options.kind \in {"list", "none"})
                 => (pc = "build" \/ Built)
           /\ Built => cmd = << path, "--immediate", "--readonly", "--json", "show",
                                Str(req.entity) >> \o OptionTokens
           /\ pc = "returned" => ~result.changed

\* show('account', ['job', 'node']) exited 0: all four flags and tokens, changed false
C14_Witness ==
    /\ tool = "sacctmgr" /\ req.via = "show" /\ pc = "returned"
    /\ proc.returncode = 0 /\ ~result.changed /\ result.success
    /\ cmd = << "/usr/bin/sacctmgr", "--immediate", "--readonly", "--json", "show",
               "account", "job", "node" >>

----------------------------------------------------------------------------
(* C15: the sacctmgr facade operations add, delete and modify disable JSON  *)
(* and run non-readonly, which is the table default of their verbs: the     *)
(* executed vector is exactly path, '--immediate', the verb, the entity,    *)
(* then the options, with neither '--readonly' nor '--json' ahead of the    *)
(* verb, and on exit code 0 the Result has success true and changed true.   *)

MutatingFacades == {"add", "delete", "modify"}

C15_MutatingFacades ==
    (tool = "sacctmgr" /\ req.via \in MutatingFacades)
        => /\ Str(req.command) = req.via
           /\ ~req.use_json
           /\ ~SacctmgrReadonly
           /\ ~In(Verb, Sacctmgr_READONLY_COMMANDS)
           /\ Built => /\ cmd = << path, "--immediate", req.via, Str(req.entity) >>
                               \o OptionTokens
                       /\ AheadOfVerb = << path, "--immediate" >>
           /\ (pc = "returned" /\ proc.returncode = 0)
                 => (result.success /\ result.changed /\ result.data = "None")

\* modify('account', "job x") exited 0: the bare vector, and changed is true
C15_Witness ==
    /\ tool = "sacctmgr" /\ req.via = "modify" /\ pc = "returned"
    /\ proc.returncode = 0 /\ result.success /\ result.changed
    /\ cmd = << "/usr/bin/sacctmgr", "--immediate", "modify", "account", "job", "x" >>

----------------------------------------------------------------------------
(* C16: for every options value that is neither a string nor a list, falsy  *)
(* values of another type (0, an empty dict, an empty tuple) included, a    *)
(* request with a valid verb and entity is rejected with the fatal error    *)
(* 'Options must be a string or list' and no argument vector is produced;   *)
(* only None, a string or a list is ever accepted.                          *)

\* the verb is valid and so is the entity argument of a sacctmgr request
ValidVerbAndEntity ==
    /\ In(Verb, ValidCommands)
    /\ tool = "sacctmgr" => ValidSacctmgrEntity

\* _build_command has been called and is over
PastBuild == pc \in {"execute", "returned", "fatal", "raised"}

C16_OtherTypeIsFatal ==
    /\ (PastBuild /\ ValidVerbAndEntity /\ req.options.kind = "other")
          => /\ pc = "fatal"
             /\ fatal = << "Options must be a string or list" >>
             /\ cmd = NoCmd /\ spawned = 0
    /\ Built => req.options.kind \in {"none", "str", "list"}

----------------------------------------------------------------------------
(* What the gateway computes from a request r, step by step *)

Validation(r) ==
    IF tool = "sacctmgr"
    THEN LET v == Sacctmgr_validate_command(r.command) IN
         IF v.kind # "ok" THEN v ELSE Sacctmgr_validate_entity(r.entity)
    ELSE Scontrol_validate(r.command, r.options)

Building(r) ==
    IF tool = "sacctmgr"
    THEN Sacctmgr_build_command(path, r.command, r.entity, r.options, r.use_json,
                                r.use_readonly)
    ELSE Scontrol_build_command(path, r.command, r.options, r.use_json)

IsReadonly(r) ==
    IF tool = "sacctmgr" THEN Sacctmgr_is_readonly(r.command, r.use_readonly)
    ELSE Scontrol_is_readonly(r.command)

ParseJson(r, p) ==
    IF tool = "sacctmgr" THEN Sacctmgr_parse_json(r.command, r.use_json, p)
    ELSE Scontrol_parse_json(r.command, r.use_json, p)

\* the Result of r when the process exits as p
ResultOf(r, p) ==
    fill_result(initial_result(IsReadonly(r), Building(r).cmd), p, ParseJson(r, p))

----------------------------------------------------------------------------
(* The request that differs from r only in the letter case of its verb and  *)
(* entity, both in lower case                                               *)

\* s with its first whitespace-separated word in lower case
LowerFirstWord(s) ==
    LET ws == {i \in DOMAIN s : s[i] \notin StrWhitespace} IN
    IF ws = {} THEN s
    ELSE LET a == CHOOSE i \in ws : \A j \in ws : i <= j
             after == {i \in DOMAIN s : i > a /\ s[i] \in StrWhitespace}
             b == IF after = {} THEN Len(s) + 1
                  ELSE CHOOSE i \in after : \A j \in after : i <= j
         IN [i \in DOMAIN s |-> IF i >= a /\ i < b THEN LowerAtom(s[i]) ELSE s[i]]

LowerCased(r) ==
    LET o == r.options
        lo == IF tool = "scontrol" /\ Str(lower(r.command)) \in EntityVerbs
              THEN IF o.kind = "list" /\ Len(o.val) > 0
                   THEN OptList([o.val EXCEPT ![1] = lower(o.val[1])])
                   ELSE IF o.kind = "str" THEN OptStr(LowerFirstWord(o.val))
                   ELSE o
              ELSE o
    IN [r EXCEPT !.command = lower(r.command), !.entity = lower(r.entity), !.options = lo]

\* the positions of the vector that hold the verb and the entity
CasedPositions ==
    {VerbIndex} \cup (IF tool = "sacctmgr" \/ HasEntity THEN {VerbIndex + 1} ELSE {})

----------------------------------------------------------------------------
(* C17: changing only the letter case of the verb or entity of a request    *)
(* does not change its outcome.  A request with a capital in its verb or    *)
(* entity is compared with the same request in lower case (L): validation   *)
(* accepts or rejects alike, the flags ahead of the verb,                   *)
(* the changed value and the decode decision are the same, and the vectors  *)
(* differ at most in the verb and entity tokens, which are as the caller    *)
(* wrote them.                                                              *)
C17_CaseInsensitive ==
    LET L == LowerCased(req)
        bL == Building(L).cmd
        \* the Result of L less its command string, which holds the vector
        rL == fill_result(initial_result(IsReadonly(L), NoCmd), proc, ParseJson(L, proc))
    IN
    \* the request has been made: what validation and the two decisions will be
    /\ (pc = "validate" /\ L # req) =>
          /\ Validation(req).kind = Validation(L).kind
          /\ Validation(req).kind = "ok" => Building(req).kind = Building(L).kind
          /\ IsReadonly(req) = IsReadonly(L)
          /\ \A p \in ProcOutcomes : ParseJson(req, p) = ParseJson(L, p)
    \* the vector has been built
    /\ (pc = "execute" /\ L # req) =>
          /\ Validation(L).kind = "ok" /\ Building(L).kind = "ok"
          /\ Len(bL) = Len(cmd)
          /\ \A i \in DOMAIN cmd : i \notin CasedPositions => bL[i] = cmd[i]
          /\ AheadOfVerb = SubSeq(bL, 1, VerbIndex - 1)
          /\ cmd[VerbIndex] = Str(req.command)
          /\ bL[VerbIndex] = Str(lower(req.command))
          /\ tool = "sacctmgr" => /\ cmd[VerbIndex + 1] = Str(req.entity)
                                  /\ bL[VerbIndex + 1] = Str(lower(req.entity))
    \* the Result has been returned
    /\ (pc = "returned" /\ L # req) =>
          /\ result.success = rL.success
          /\ result.changed = rL.changed
          /\ result.data = rL.data
          /\ result.json_parse_error = rL.json_parse_error
          /\ (decoded > 0) = ParseJson(L, proc)

\* SHOW ACCOUNT in capitals: flags, decoding and changed as for show account
C17_Witness ==
    /\ tool = "sacctmgr" /\ pc = "returned" /\ req.via = "run_command"
    /\ req.command = W("SHOW") /\ req.entity = W("ACCOUNT")
    /\ cmd = << "/usr/bin/sacctmgr", "--immediate", "--readonly", "--json", "SHOW", "ACCOUNT" >>
    /\ decoded = 1 /\ ~result.changed /\ result.data = "{'accounts': []}"

----------------------------------------------------------------------------
(* How a call with request r ends when subprocess.run, if it is reached,    *)
(* does p: where the call ends, the Result, the fail_json message, the      *)
(* uncaught exception                                                       *)
OutcomeOf(r, p) ==
    LET v == Validation(r)
        b == Building(r)
    IN IF v.kind # "ok"
       THEN [end |-> v.kind, result |-> NoResult, fatal |-> v.msg, raised |-> v.exc]
       ELSE IF b.kind # "ok"
       THEN [end |-> b.kind, result |-> NoResult, fatal |-> b.msg, raised |-> b.exc]
       ELSE IF p.kind = "exit"
       THEN [end |-> "returned", result |-> ResultOf(r, p), fatal |-> NoMsg, raised |-> ""]
       ELSE [end |-> "fatal", result |-> NoResult,
             fatal |-> IF p.kind = "timeout" THEN timeout_msg(b.cmd)
                       ELSE launch_failure_msg(p.text),
             raised |-> ""]

----------------------------------------------------------------------------
(* C18: a gateway keeps no state between requests.  No step after           *)
(* construction changes the resolved path (the rule tables are constants of *)
(* the class, which nothing assigns), and however many calls came before    *)
(* and however they ended, the way a call ends and the Result it returns    *)
(* are the function OutcomeOf of the request and of what the subprocess did *)
(* in this call.                                                            *)
C18_OutcomeIsAFunction ==
    (pc \in {"returned", "fatal", "raised"})
        => /\ [end |-> pc, result |-> result, fatal |-> fatal, raised |-> raised]
                 = OutcomeOf(req, proc)
           /\ Built => cmd = Building(req).cmd /\ cmd[1] = path

C18_NoStateBetweenRequests ==
    /\ []C18_OutcomeIsAFunction
    /\ [][Constructed => (path' = path /\ tool' = tool /\ located' = located)]_vars

\* a later call on the same instance returned the Result of its own request
C18_Witness ==
    /\ reused /\ tool = "scontrol" /\ pc = "returned"
    /\ req.command = W("update") /\ req.options = OptList(<< W("node"), W("job") >>)
    /\ proc.returncode = 0
    /\ cmd = << "/usr/bin/scontrol", "update", "node", "job" >>
    /\ result.changed /\ result.success
    /\ result.command = << "/usr/bin/scontrol", " ", "update", " ", "node", " ", "job" >>

----------------------------------------------------------------------------
(* C19 as stated: SacctmgrHelper._build_command for verb 'add' and entity   *)
(* 'account' with use_readonly=False and use_json true returns path,        *)
(* '--immediate', '--json', 'add', 'account' (then the option tokens), and  *)
(* the command string of the Result reads                                   *)
(* '<path> --immediate --json add account ...'.                             *)

\* _build_command('add', 'account', options, use_json=True, use_readonly=False) is over
AddAccountBuilt ==
    /\ tool = "sacctmgr" /\ Built
    /\ req.command = W("add") /\ req.entity = W("account")
    /\ req.use_json /\ req.use_readonly = "False"

----------------------------------------------------------------------------
----------------------------------------------------------------------------
(* C21: in the scontrol gateway, for options given as one string, the token *)
(* validated as the entity and tested for JSON capability is the first      *)
(* token of the shell-word-split options, the one that becomes the first    *)
(* option token of the vector; the two extractions never disagree, quoted   *)
(* first tokens included.                                                   *)

\* the options of the request are a string that shlex.split splits into at least one token
HasShellFirstToken ==
    /\ req.options.kind = "str"
    /\ shlex_split(req.options.val).err = ""
    /\ shlex_split(req.options.val).tokens # << >>

ShellFirstToken == shlex_split(req.options.val).tokens[1]

EntityErrors ==
    {"Invalid show entity: ", "Invalid update entity: ", "Invalid create entity: ",
     "Invalid delete entity: "}

C21_SameFirstToken ==
    (tool = "scontrol" /\ PastValidation /\ Verb \in EntityVerbs /\ HasShellFirstToken)
        => /\ HasFirstToken
           /\ Str(FirstToken) = Str(ShellFirstToken)
           /\ (In(Str(lower(ShellFirstToken)), ApplicableEntities))
                 => ~(pc = "fatal" /\ fatal[1] \in EntityErrors)
           /\ Built => (In("--json", AheadOfVerb)
                          <=> (req.use_json /\ Verb = "show"
                               /\ Str(lower(ShellFirstToken))
                                     \in Range(Scontrol_JSON_SUPPORTED_ENTITIES)))

----------------------------------------------------------------------------
(* C22: in the scontrol gateway, when the options of a show, update, create *)
(* or delete request hold no token (None, an empty list, an empty string, a *)
(* string of whitespace only), no error is raised before launch: '--json'   *)
(* is left out and the call goes on to spawn the vector path, verb.         *)

\* the options hold no token
NoOptionToken ==
    \/ req.options.kind = "none"
    \/ req.options.kind = "list" /\ req.options.val = << >>
    \/ req.options.kind = "str" /\ split(req.options.val) = << >>

C22_NoTokenProceeds ==
    (tool = "scontrol" /\ Verb \in EntityVerbs /\ NoOptionToken /\ PastBuild)
        => /\ Built
           /\ raised = ""
           /\ cmd = << path, Str(req.command) >>

----------------------------------------------------------------------------
(* C23: when options is a string with unbalanced quoting, a run_command     *)
(* call that has passed validation raises while it builds the argument      *)
(* vector, on either gateway: the ValueError of shlex.split leaves          *)
(* run_command, no subprocess is spawned, no Result is returned and         *)
(* fail_json is not called, so the error is none of the gateway's fatal     *)
(* conditions.                                                              *)

\* the options are a string that shlex.split refuses
Untokenizable == req.options.kind = "str" /\ shlex_split(req.options.val).err # ""

C23_BadQuotingRaises ==
    (PastBuild /\ Untokenizable /\ Validation(req).kind = "ok")
        => /\ pc = "raised"
           /\ raised = "ValueError: " \o shlex_split(req.options.val).err
           /\ fatal = NoMsg
           /\ cmd = NoCmd
           /\ spawned = 0 /\ proc = NoProc
           /\ result = NoResult

\* scontrol show with the options "job '": job is a valid entity, the quote never closes
C23_Witness ==
    /\ tool = "scontrol" /\ Verb = "show" /\ pc = "raised"
    /\ req.options = OptStr(<< "job", " ", "'" >>)
    /\ raised = "ValueError: No closing quotation"
    /\ spawned = 0

----------------------------------------------------------------------------
(* C24: a run_command call spawns the tool at most once, and only after     *)
(* validation and the assembly of the vector have both completed; after a   *)
(* non-zero exit, a decode failure, a timeout or a launch failure the call  *)
(* is over and the tool is not started a second time.                       *)
C24_SpawnedAtMostOnce ==
    /\ spawned \in {0, 1}
    /\ (spawned = 1) <=> (proc # NoProc)
    /\ spawned = 1
          => /\ pc \in {"returned", "fatal"}
             /\ Validation(req).kind = "ok"
             /\ cmd # NoCmd /\ cmd[1] = path /\ In(Str(req.command), cmd)
             /\ raised = ""
             /\ fatal # NoMsg => fatal[1] \notin ValidationErrors
    /\ pc \notin {"returned", "fatal"} => spawned = 0

\* the tool exited 1 after printing text: the call returned, one spawn
C24_Witness ==
    /\ pc = "returned" /\ spawned = 1
    /\ proc.kind = "exit" /\ proc.returncode = 1 /\ proc.stdout = "not json\n"
    /\ ~result.success

----------------------------------------------------------------------------
(* C25 as stated: in the sacctmgr gateway the readonly status computed in   *)
(* _build_command and the one computed in run_command agree: in every       *)
(* Result, changed true implies '--readonly' is not in the executed         *)
(* command, and '--readonly' in the executed command implies changed false, *)
(* for every verb and every use_readonly.                                   *)
C25_ReadonlyAgreesWithChanged ==
    (tool = "sacctmgr" /\ pc = "returned")
        => /\ result.changed => ~In("--readonly", cmd)
           /\ In("--readonly", cmd) => ~result.changed

(* C25 as amended: in the sacctmgr gateway the readonly status computed in  *)
(* _build_command and the one computed in run_command are equal for every   *)
(* verb and every use_readonly; in every Result, changed true implies that  *)
(* no '--readonly' stands ahead of the verb, and '--readonly' ahead of the  *)
(* verb implies changed false.  The option tokens after the entity are the  *)
(* caller's and may include '--readonly' whatever changed is.               *)
C25_InjectedReadonlyAgreesWithChanged ==
    (tool = "sacctmgr" /\ InCall)
        => /\ Sacctmgr_build_readonly(req.command, req.use_readonly)
                 = Sacctmgr_is_readonly(req.command, req.use_readonly)
           /\ pc = "returned"
                 => /\ result.changed => ~In("--readonly", AheadOfVerb)
                    /\ In("--readonly", AheadOfVerb) => ~result.changed
                    /\ In("--readonly", AheadOfVerb)
                          <=> Sacctmgr_is_readonly(req.command, req.use_readonly)

\* add with use_readonly=True exited 0: the flag is in and changed is false
C25_Witness ==
    /\ tool = "sacctmgr" /\ pc = "returned" /\ Verb = "add" /\ req.use_readonly = "True"
    /\ proc.returncode = 0 /\ result.success /\ ~result.changed
    /\ AheadOfVerb = << "/usr/bin/sacctmgr", "--immediate", "--readonly" >>

----------------------------------------------------------------------------
(* C26: in every Result returned by either gateway, a decoded payload (data *)
(* not None) and a json_parse_error are never both present, and neither is  *)
(* present when success is false, when JSON was not requested, or when      *)
(* stdout is empty after strip().                                           *)
C26_PayloadXorParseError ==
    (pc = "returned")
        => /\ ~(result.data # "None" /\ result.json_parse_error # NoKey)
           /\ (~result.success \/ ~req.use_json \/ strip(result.stdout) = "")
                 => (result.data = "None" /\ result.json_parse_error = NoKey)
           /\ (result.data # "None" \/ result.json_parse_error # NoKey) => decoded = 1

\* JSON text on stdout, exit 0, JSON not requested: neither key is set
C26_Witness ==
    /\ pc = "returned" /\ ~req.use_json /\ Verb = "show"
    /\ result.success /\ result.stdout = "{\"accounts\": []}\n"
    /\ result.data = "None" /\ result.json_parse_error = NoKey

----------------------------------------------------------------------------
(* C27: the mutating scontrol facade operations (update, create, delete,    *)
(* hold, release, suspend, resume) disable JSON and use the table-default   *)
(* readonly status of their verb, which is non-readonly: the executed       *)
(* vector is exactly path, verb, then the facade arguments as single        *)
(* unsplit tokens (entity and specification, or the job list) with no       *)
(* '--json' ahead of the verb, no payload is decoded, and changed is true   *)
(* on exit code 0 and false on a non-zero exit.                             *)

PairFacades == {"update", "create", "delete"}

JobListFacades == {"hold", "release", "suspend", "resume"}

C27_ScontrolMutatingFacades ==
    (tool = "scontrol" /\ req.via \in PairFacades \cup JobListFacades)
        => /\ Str(req.command) = req.via
           /\ ~req.use_json
           /\ ~In(Verb, Scontrol_READONLY_COMMANDS)
           /\ req.options.kind = "list"
           /\ Len(req.options.val) = (IF req.via \in PairFacades THEN 2 ELSE 1)
           /\ Built => /\ cmd = << path, req.via >> \o Flat(req.options.val)
                       /\ Len(cmd) = (IF req.via \in PairFacades THEN 4 ELSE 3)
                       /\ AheadOfVerb = << path >>
           /\ pc = "returned"
                 => /\ decoded = 0 /\ result.data = "None"
                    /\ result.json_parse_error = NoKey
                    /\ result.changed <=> (proc.returncode = 0)

\* update('node', 'job x') exited 0: the specification is one token, changed is true
C27_Witness ==
    /\ tool = "scontrol" /\ req.via = "update" /\ pc = "returned"
    /\ cmd = << "/usr/bin/scontrol", "update", "node", "job x" >>
    /\ proc.returncode = 0 /\ proc.stdout = "{\"accounts\": []}\n"
    /\ result.changed /\ result.data = "None"
====
